---- MODULE Spec2Model ----
(***************************************************************************)
(* Model of src/03_deliver/01_code_generator_service.py: the contract      *)
(* extractor, the three template generators, call_cortex and the           *)
(* "Generate All Outputs" handler of the Streamlit script.                 *)
(*                                                                         *)
(* Python values are tagged records [t |-> type, v |-> payload]:           *)
(*   str  : v is the sequence of its characters                            *)
(*   list : v is the sequence of its items                                 *)
(*   dict : v is the sequence of its [k, v] entries, in insertion order    *)
(*   bool, int : v is the value;  None : v is <<>>                         *)
(* A call that raises yields [t |-> "raise", v |-> exception name].        *)
(***************************************************************************)
EXTENDS Integers, Sequences, FiniteSets, TLC

VARIABLES
    contract,        \* the document returned by parse_contract
    contract_info,   \* what extract_contract_info returned in this script run
    pc,              \* where the script run stands
    cortex_outcome,  \* what the completion query did in this request
    dbt_model_code,  \* the four locals of the Generate handler
    schema_yml,
    masking_sql,
    dmf_sql,
    session_state,   \* st.session_state: the stored results
    requests,        \* Generate requests so far
    runs             \* the generator calls made on this contract_info so far

vars == <<contract, contract_info, pc, cortex_outcome, dbt_model_code,
          schema_yml, masking_sql, dmf_sql, session_state, requests, runs>>

----------------------------------------------------------------------------
(* Python values *)

S(chars) == [t |-> "str", v |-> chars]
L(items) == [t |-> "list", v |-> items]
D(entries) == [t |-> "dict", v |-> entries]
B(b) == [t |-> "bool", v |-> b]
I(n) == [t |-> "int", v |-> n]
None == [t |-> "None", v |-> <<>>]
KV(key, val) == [k |-> key, v |-> val]
Raise(exc) == [t |-> "raise", v |-> exc]
Ok(val) == [t |-> "ok", v |-> val]

EmptyStr == S(<<>>)
EmptyList == L(<<>>)
EmptyDict == D(<<>>)

IsDict(x) == x.t = "dict"
IsStr(x) == x.t = "str"
IsList(x) == x.t = "list"
IsRaise(x) == x.t = "raise"

\* bool(x)
Truthy(x) ==
    CASE x.t = "None" -> FALSE
      [] x.t = "bool" -> x.v
      [] x.t = "int" -> x.v # 0
      [] OTHER -> Len(x.v) > 0

\* key in d
HasKey(d, key) == \E i \in DOMAIN d.v : d.v[i].k = key

\* d.get(key, default)
get(d, key, default) ==
    IF HasKey(d, key)
    THEN d.v[CHOOSE i \in DOMAIN d.v : d.v[i].k = key].v
    ELSE default

----------------------------------------------------------------------------
(* str methods *)

UpperChars == <<"A","B","C","D","E","F","G","H","I","J","K","L","M",
                "N","O","P","Q","R","S","T","U","V","W","X","Y","Z">>
LowerChars == <<"a","b","c","d","e","f","g","h","i","j","k","l","m",
                "n","o","p","q","r","s","t","u","v","w","x","y","z">>

LowerCh(c) ==
    IF \E i \in DOMAIN UpperChars : UpperChars[i] = c
    THEN LowerChars[CHOOSE i \in DOMAIN UpperChars : UpperChars[i] = c]
    ELSE c

UpperCh(c) ==
    IF \E i \in DOMAIN LowerChars : LowerChars[i] = c
    THEN UpperChars[CHOOSE i \in DOMAIN LowerChars : LowerChars[i] = c]
    ELSE c

\* s.lower(), s.upper() on character sequences
lower(s) == [i \in DOMAIN s |-> LowerCh(s[i])]
upper(s) == [i \in DOMAIN s |-> UpperCh(s[i])]

\* sub in s
Contains(s, sub) ==
    \E i \in 0..(Len(s) - Len(sub)) :
        \A j \in 1..Len(sub) : s[i + j] = sub[j]

\* s.split('.')[-1]: the characters after the last dot
LastDot(s) ==
    IF \E i \in DOMAIN s : s[i] = "."
    THEN CHOOSE i \in DOMAIN s : s[i] = "." /\ \A j \in (i+1)..Len(s) : s[j] # "."
    ELSE 0

split_last(s) == SubSeq(s, LastDot(s) + 1, Len(s))

----------------------------------------------------------------------------
(* CONTRACT PARSING *)

\* One entry of the columns list built at lines 147-157.
column_of(col_name, col_spec) ==
    [name |-> S(col_name),
     type |-> get(col_spec, "type", S(<<"s","t","r","i","n","g">>)),
     description |-> get(col_spec, "description", EmptyStr),
     derivation |-> get(col_spec, "derivation", get(col_spec, "source", EmptyStr)),
     required |-> get(get(col_spec, "constraints", EmptyDict), "required", B(FALSE)),
     pii |-> get(col_spec, "pii", B(FALSE)),
     tags |-> get(col_spec, "tags", EmptyList),
     masking_policy |-> get(col_spec, "masking_policy", None)]

\* legacy_table with the first dot-separated segment as the name
legacy_table_first_segment(t) ==
    D(<<KV("name", S(SubSeq(t.v, 1, IF LastDot(t.v) = 0 THEN Len(t.v)
                                    ELSE (CHOOSE i \in DOMAIN t.v :
                                            t.v[i] = "." /\ \A j \in 1..(i-1) : t.v[j] # ".") - 1))),
        KV("location", t)>>)

\* The old-format wrapping of line 167.
legacy_table(t) ==
    D(<<KV("name", S(split_last(t.v))), KV("location", t)>>)

\* Lines 160-169.
source_tables_of(upstream_tables) ==
    IF IsList(upstream_tables) /\ Len(upstream_tables.v) > 0
    THEN IF IsDict(upstream_tables.v[1])
         THEN upstream_tables
         ELSE L([i \in DOMAIN upstream_tables.v |-> legacy_table(upstream_tables.v[i])])
    ELSE EmptyList

\* t.split raises AttributeError on an element that is not a str (line 167).
legacy_split_raises(upstream_tables) ==
    /\ IsList(upstream_tables)
    /\ Len(upstream_tables.v) > 0
    /\ ~IsDict(upstream_tables.v[1])
    /\ \E i \in DOMAIN upstream_tables.v : ~IsStr(upstream_tables.v[i])

\* extract_contract_info: Ok(contract_info), or the AttributeError raised by a
\* .get / .items / .split on a value that has no such method.
extract_contract_info(doc) ==
    IF ~IsDict(doc) THEN Raise("AttributeError") ELSE
    LET metadata == get(doc, "metadata", EmptyDict)
        spec == get(doc, "spec", EmptyDict)
    IN
    IF ~IsDict(spec) THEN Raise("AttributeError") ELSE
    LET source == get(spec, "source", EmptyDict)
        destination == get(spec, "destination", EmptyDict)
        schema == get(spec, "schema", EmptyDict)
    IN
    IF ~IsDict(schema) THEN Raise("AttributeError") ELSE
    LET properties == get(schema, "properties", EmptyDict) IN
    IF \/ ~IsDict(properties)
       \/ \E i \in DOMAIN properties.v :
            \/ ~IsDict(properties.v[i].v)
            \/ ~IsDict(get(properties.v[i].v, "constraints", EmptyDict))
    THEN Raise("AttributeError") ELSE
    LET columns == [i \in DOMAIN properties.v |->
                        column_of(properties.v[i].k, properties.v[i].v)]
    IN
    IF ~IsDict(source) THEN Raise("AttributeError") ELSE
    LET upstream_tables == get(source, "upstream_tables", EmptyList) IN
    IF legacy_split_raises(upstream_tables) THEN Raise("AttributeError") ELSE
    IF \/ ~IsDict(metadata)
       \/ ~IsDict(get(spec, "info", EmptyDict))
       \/ ~IsDict(destination)
       \/ ~IsDict(get(spec, "data_quality", EmptyDict))
    THEN Raise("AttributeError") ELSE
    Ok([name |-> get(metadata, "name", S(<<"u","n","k","n","o","w","n">>)),
        version |-> get(metadata, "version", S(<<"1",".","0",".","0">>)),
        title |-> get(get(spec, "info", EmptyDict), "title", EmptyStr),
        description |-> get(get(spec, "info", EmptyDict), "description", EmptyStr),
        owner |-> get(get(spec, "info", EmptyDict), "owner", EmptyDict),
        source_tables |-> source_tables_of(upstream_tables),
        target_database |-> get(destination, "database", EmptyStr),
        target_schema |-> get(destination, "schema", EmptyStr),
        target_table |-> get(destination, "table", EmptyStr),
        materialization |-> get(destination, "materialization", S(<<"t","a","b","l","e">>)),
        columns |-> columns,
        grain |-> get(schema, "grain", EmptyStr),
        primary_key |-> get(schema, "primary_key", EmptyStr),
        data_quality |-> get(spec, "data_quality", EmptyDict),
        business_rules |-> get(get(spec, "data_quality", EmptyDict), "business_rules", EmptyList),
        masking_policies |-> get(spec, "masking_policies", EmptyDict),
        access_control |-> get(spec, "access_control", EmptyDict),
        sla |-> get(spec, "sla", EmptyDict)])

\* The calls of the Step 2 display (lines 778-835) that raise: .get on an
\* owner that is not a dict (789), a slice of a derivation that is neither
\* text nor list (819), .items() / .get on masking policies that are not
\* dicts (824, 826), a loop over business_rules that cannot be iterated (831).
review_raises(info) ==
    \/ ~IsDict(info.owner)
    \/ \E i \in DOMAIN info.columns :
          /\ Truthy(info.columns[i].derivation)
          /\ info.columns[i].derivation.t \notin {"str", "list"}
    \/ /\ Truthy(info.masking_policies)
       /\ \/ ~IsDict(info.masking_policies)
          \/ \E i \in DOMAIN info.masking_policies.v :
                ~IsDict(info.masking_policies.v[i].v)
    \/ /\ Truthy(info.business_rules)
       /\ info.business_rules.t \notin {"list", "str", "dict"}

----------------------------------------------------------------------------
(* SCHEMA.YML GENERATION *)

\* a == b between two Python values
PyEq(a, b) == a.t = b.t /\ a.v = b.v

\* column_tests with the required branch tried before the primary-key branch
column_tests_required_first(col, primary_key) ==
    IF Truthy(col.required) THEN <<"not_null">>
    ELSE IF PyEq(col.name, primary_key) THEN <<"unique", "not_null">>
    ELSE <<>>

\* Lines 329-333: the tests list of one column.
column_tests(col, primary_key) ==
    IF PyEq(col.name, primary_key) THEN <<"unique", "not_null">>
    ELSE IF Truthy(col.required) THEN <<"not_null">>
    ELSE <<>>

\* Lines 323-344: one entry of columns_yaml.  An empty tests sequence stands
\* for a col_def without the 'tests' key, None for one without 'tags'.
column_def(col, primary_key) ==
    [name |-> col.name,
     description |-> col.description,
     tests |-> column_tests(col, primary_key),
     tags |-> IF Truthy(col.tags) THEN col.tags ELSE None]

\* Lines 310-318: one entry of the sources' tables.
table_def(table) ==
    IF IsDict(table)
    THEN [name |-> lower(get(table, "name", EmptyStr).v),
          description |-> get(table, "description", EmptyStr)]
    ELSE [name |-> lower(split_last(table.v)), description |-> None]

\* The calls of generate_schema_yml that raise: .lower() / .split() on a value
\* that is not a str (lines 297, 313, 317), .get on one that is not a dict
\* (lines 357, 358).
schema_yml_raises(info) ==
    \/ ~IsStr(info.target_table)
    \/ ~IsList(info.source_tables)
    \/ \E i \in DOMAIN info.source_tables.v :
          LET table == info.source_tables.v[i] IN
          IF IsDict(table) THEN ~IsStr(get(table, "name", EmptyStr))
          ELSE ~IsStr(table)
    \/ ~IsDict(info.owner)
    \/ ~IsDict(info.sla)

\* generate_schema_yml: the two YAML documents, as the structures dumped.
generate_schema_yml(info) ==
    IF schema_yml_raises(info) THEN Raise("AttributeError") ELSE
    Ok([sources |-> [name |-> "raw",
                     database |-> info.target_database,
                     schema |-> "RAW",
                     tables |-> [i \in DOMAIN info.source_tables.v |->
                                    table_def(info.source_tables.v[i])]],
        models |-> [name |-> lower(info.target_table.v),
                    description |-> info.description,
                    materialized |-> info.materialization,
                    tags |-> <<"data_product", "generated_from_contract">>,
                    owner |-> get(info.owner, "email", EmptyStr),
                    sla |-> get(info.sla, "data_freshness", EmptyStr),
                    contract_version |-> info.version,
                    columns |-> [i \in DOMAIN info.columns |->
                                    column_def(info.columns[i], info.primary_key)]]])

----------------------------------------------------------------------------
(* MASKING POLICY GENERATION *)

\* One emitted SQL statement or comment line.
Stmt(kind, arguments) == [stmt |-> kind, args |-> arguments]

\* Lines 402-403: dict.get returns the default only when the key is absent.
authorized_roles_of(policy_def, info) ==
    get(policy_def, "authorized_roles",
        get(info.access_control, "authorized_roles", EmptyList))

\* Line 406: each role upper-cased, in order.  Iterating a str yields its
\* characters.
roles_sql(authorized_roles) ==
    IF IsStr(authorized_roles)
    THEN [i \in DOMAIN authorized_roles.v |-> <<UpperCh(authorized_roles.v[i])>>]
    ELSE [i \in DOMAIN authorized_roles.v |-> upper(authorized_roles.v[i].v)]

\* Iterating authorized_roles raises TypeError unless it is a list or a str
\* (a mapping of roles is not among the inputs drawn); .upper() raises
\* AttributeError on a role that is not a str.
roles_raise(authorized_roles) ==
    \/ authorized_roles.t \notin {"list", "str"}
    \/ /\ IsList(authorized_roles)
       /\ \E j \in DOMAIN authorized_roles.v : ~IsStr(authorized_roles.v[j])

\* policy_sql attaching every policy, whatever its applies_to
policy_sql_always_attached(policy_name, policy_def, info) ==
    LET applies_to == get(policy_def, "applies_to", EmptyStr)
        description == get(policy_def, "description", EmptyStr)
        data_type == get(policy_def, "data_type", S(<<"S","T","R","I","N","G">>))
        roles == roles_sql(authorized_roles_of(policy_def, info))
    IN <<Stmt("CREATE OR REPLACE MASKING POLICY",
              <<lower(policy_name), data_type, roles>>),
         Stmt("COMMENT ON MASKING POLICY",
              <<lower(policy_name), description, info.name, info.version>>),
         Stmt("ALTER TABLE IF EXISTS",
              <<info.target_database, info.target_schema, info.target_table,
                applies_to, lower(policy_name)>>)>>

\* Lines 400-444: the statements of one policy.
policy_sql(policy_name, policy_def, info) ==
    LET applies_to == get(policy_def, "applies_to", EmptyStr)
        description == get(policy_def, "description", EmptyStr)
        data_type == get(policy_def, "data_type", S(<<"S","T","R","I","N","G">>))
        roles == roles_sql(authorized_roles_of(policy_def, info))
    IN <<Stmt("CREATE OR REPLACE MASKING POLICY",
              <<lower(policy_name), data_type, roles>>),
         Stmt("COMMENT ON MASKING POLICY",
              <<lower(policy_name), description, info.name, info.version>>)>>
       \o (IF Truthy(applies_to)
           THEN <<Stmt("ALTER TABLE IF EXISTS",
                       <<info.target_database, info.target_schema, info.target_table,
                         applies_to, lower(policy_name)>>)>>
           ELSE <<>>)

\* The calls of generate_masking_policies_sql that raise: .items() / .get on a
\* value that is not a dict (lines 400, 402, 403; the default of line 403 is
\* evaluated for every policy), and the role loop of line 406.
masking_raises(info) ==
    LET masking_policies == info.masking_policies IN
    \/ ~IsDict(masking_policies)
    \/ \E i \in DOMAIN masking_policies.v :
          LET policy_def == masking_policies.v[i].v IN
          \/ ~IsDict(policy_def)
          \/ ~IsDict(info.access_control)
          \/ roles_raise(authorized_roles_of(policy_def, info))

RECURSIVE Flatten(_)
Flatten(seqs) ==
    IF Len(seqs) = 0 THEN <<>> ELSE Head(seqs) \o Flatten(Tail(seqs))

\* generate_masking_policies_sql without the early return of lines 383-384
generate_masking_policies_sql_with_header(info, now) ==
    IF Truthy(info.masking_policies) /\ masking_raises(info) THEN Raise("AttributeError")
    ELSE Ok(<<Stmt("-- MASKING POLICIES: Generated from Data Contract",
                   <<info.name, info.version, now>>),
              Stmt("USE ROLE", <<"ACCOUNTADMIN">>),
              Stmt("USE DATABASE", <<info.target_database>>),
              Stmt("USE SCHEMA", <<info.target_schema>>)>>
            \o (IF Truthy(info.masking_policies)
                THEN Flatten([i \in DOMAIN info.masking_policies.v |->
                                policy_sql(info.masking_policies.v[i].k,
                                           info.masking_policies.v[i].v, info)])
                ELSE <<>>))

\* generate_masking_policies_sql(contract_info) read at clock value now.
generate_masking_policies_sql(info, now) ==
    IF ~Truthy(info.masking_policies)
    THEN Ok(<<Stmt("-- No masking policies defined in contract", <<>>)>>)
    ELSE IF masking_raises(info) THEN Raise("AttributeError")
    ELSE Ok(<<Stmt("-- MASKING POLICIES: Generated from Data Contract",
                   <<info.name, info.version, now>>),
              Stmt("USE ROLE", <<"ACCOUNTADMIN">>),
              Stmt("USE DATABASE", <<info.target_database>>),
              Stmt("USE SCHEMA", <<info.target_schema>>)>>
            \o Flatten([i \in DOMAIN info.masking_policies.v |->
                          policy_sql(info.masking_policies.v[i].k,
                                     info.masking_policies.v[i].v, info)]))

----------------------------------------------------------------------------
(* DATA METRIC FUNCTION GENERATION *)

DefaultMaxSeconds == 86400
SecondsPerHour == 3600
DefaultRowThreshold == 500

AsciiDigits == <<"0","1","2","3","4","5","6","7","8","9">>

\* str.isdigit: the ASCII digits, and characters such as the superscript two
\* that are digits to isdigit but that int() rejects.
isdigit(c) == (\E i \in DOMAIN AsciiDigits : AsciiDigits[i] = c) \/ c = "SUPERSCRIPT TWO"

DigitValue(c) == (CHOOSE i \in DOMAIN AsciiDigits : AsciiDigits[i] = c) - 1

\* ''.join(filter(str.isdigit, s))
RECURSIVE digits_of(_)
digits_of(s) ==
    IF Len(s) = 0 THEN <<>>
    ELSE (IF isdigit(Head(s)) THEN <<Head(s)>> ELSE <<>>) \o digits_of(Tail(s))

\* int(ds) raises ValueError on '' and on a digit that is not a decimal digit
int_raises(ds) == Len(ds) = 0 \/ \E i \in DOMAIN ds : ds[i] = "SUPERSCRIPT TWO"

RECURSIVE int_of(_)
int_of(ds) ==
    IF Len(ds) = 0 THEN 0
    ELSE int_of(SubSeq(ds, 1, Len(ds) - 1)) * 10 + DigitValue(ds[Len(ds)])

\* x in xs for a Python list xs
InList(x, xs) == \E i \in DOMAIN xs : PyEq(xs[i], x)

RECURSIVE SelectSeq2(_, _)
\* the subsequence of seq at the positions where keep is TRUE
SelectSeq2(seq, keep) ==
    IF Len(seq) = 0 THEN <<>>
    ELSE (IF Head(keep) THEN <<Head(seq)>> ELSE <<>>)
         \o SelectSeq2(Tail(seq), Tail(keep))

\* Line 485: the names of the columns with a truthy 'required'.
required_by_constraint(info) ==
    LET names == [i \in DOMAIN info.columns |-> info.columns[i].name]
        keep == [i \in DOMAIN info.columns |-> Truthy(info.columns[i].required)]
    IN SelectSeq2(names, keep)

\* add_completeness taking every listed column, whatever its percentage
RECURSIVE add_completeness_any_percentage(_, _)
add_completeness_any_percentage(required_columns, items) ==
    IF Len(items) = 0 THEN required_columns
    ELSE LET col_name == S(Head(items).k) IN
         add_completeness_any_percentage(
                IF ~InList(col_name, required_columns)
                THEN Append(required_columns, col_name)
                ELSE required_columns,
                Tail(items))

\* Lines 488-490: append the 100% completeness columns not yet listed.
RECURSIVE add_completeness(_, _)
add_completeness(required_columns, items) ==
    IF Len(items) = 0 THEN required_columns
    ELSE LET col_name == S(Head(items).k)
             pct == Head(items).v
         IN add_completeness(
                IF pct.t = "int" /\ pct.v = 100 /\ ~InList(col_name, required_columns)
                THEN Append(required_columns, col_name)
                ELSE required_columns,
                Tail(items))

\* insert_primary_key without the forced insertion
insert_primary_key_skipped(required_columns, pk) == required_columns

\* Lines 493-495: the primary key is inserted first when not yet listed.
insert_primary_key(required_columns, pk) ==
    IF Truthy(pk) /\ ~InList(pk, required_columns)
    THEN <<pk>> \o required_columns
    ELSE required_columns

\* Lines 485-495.
required_columns_of(info) ==
    LET completeness == get(info.data_quality, "completeness", EmptyDict) IN
    insert_primary_key(
        add_completeness(required_by_constraint(info), completeness.v),
        info.primary_key)

full_table_name(info) ==
    <<info.target_database, info.target_schema, info.target_table>>

NoNull == <<"n","o","_","n","u","l","l","_">>
NoDuplicate == <<"n","o","_","d","u","p","l","i","c","a","t","e","_">>

\* Lines 497-505.
null_count_stmt(info, col_name) ==
    Stmt("NULL_COUNT",
         <<full_table_name(info), col_name, lower(NoNull \o col_name.v), "=", 0>>)

\* Lines 508-520.
uniqueness_part(info) ==
    LET pk == info.primary_key IN
    IF Truthy(pk)
    THEN <<Stmt("-- PART 3: UNIQUENESS CHECK (DUPLICATE_COUNT)", <<pk>>),
           Stmt("DUPLICATE_COUNT",
                <<full_table_name(info), pk, NoDuplicate \o lower(pk.v), "=", 0>>)>>
    ELSE <<>>

DimensionTags == <<"classification", "segment", "tier", "risk_tier", "geography">>

TagName(tag) ==
    CASE tag = "classification" -> <<"c","l","a","s","s","i","f","i","c","a","t","i","o","n">>
      [] tag = "segment" -> <<"s","e","g","m","e","n","t">>
      [] tag = "tier" -> <<"t","i","e","r">>
      [] tag = "risk_tier" -> <<"r","i","s","k","_","t","i","e","r">>
      [] tag = "geography" -> <<"g","e","o","g","r","a","p","h","y">>
      [] tag = "timestamp" -> <<"t","i","m","e","s","t","a","m","p">>

\* tag in tags: list membership, or substring when tags is a str
tag_in(tag, tags) ==
    IF IsStr(tags) THEN Contains(tags.v, TagName(tag))
    ELSE InList(S(TagName(tag)), tags.v)

\* str(col.get('constraints', {})): the columns built by extract_contract_info
\* have no 'constraints' key, so this is the text of the empty dict.
constraints_text(col) == <<"{", "}">>

\* Lines 524-531.
is_dimension(col) ==
    \/ \E i \in DOMAIN DimensionTags : tag_in(DimensionTags[i], col.tags)
    \/ Contains(constraints_text(col), <<"e","n","u","m">>)

dimension_columns_of(info) ==
    SelectSeq2([i \in DOMAIN info.columns |-> info.columns[i].name],
               [i \in DOMAIN info.columns |-> is_dimension(info.columns[i])])

\* Lines 533-547.
cardinality_part(info) ==
    LET dimension_columns == dimension_columns_of(info) IN
    IF Len(dimension_columns) > 0
    THEN <<Stmt("-- PART 4: CARDINALITY TRACKING (UNIQUE_COUNT)", <<>>)>>
         \o [i \in DOMAIN dimension_columns |->
                Stmt("UNIQUE_COUNT", <<full_table_name(info), dimension_columns[i]>>)]
    ELSE <<>>

TimestampTypes ==
    {S(<<"t","i","m","e","s","t","a","m","p">>),
     S(<<"t","i","m","e","s","t","a","m","p","_","n","t","z">>),
     S(<<"t","i","m","e","s","t","a","m","p","_","l","t","z">>)}

\* is_timestamp_col by declared type and name only
is_timestamp_col_untagged(col) ==
    \/ \E ty \in TimestampTypes : PyEq(col.type, ty)
    \/ Contains(lower(col.name.v), <<"c","a","l","c","u","l","a","t","e","d","_","a","t">>)

\* Lines 551-554.
is_timestamp_col(col) ==
    \/ \E ty \in TimestampTypes : PyEq(col.type, ty)
    \/ tag_in("timestamp", col.tags)
    \/ Contains(lower(col.name.v), <<"c","a","l","c","u","l","a","t","e","d","_","a","t">>)

timestamp_cols_of(info) ==
    SelectSeq2([i \in DOMAIN info.columns |-> info.columns[i].name],
               [i \in DOMAIN info.columns |-> is_timestamp_col(info.columns[i])])

\* Lines 556-557.
max_age_of(info) ==
    get(get(info.data_quality, "freshness", EmptyDict), "max_age",
        S(<<"2","5"," ","h","o","u","r","s">>))

\* max_seconds_of testing for 'hour' without lower-casing max_age
max_seconds_case_sensitive(max_age) ==
    IF Contains(max_age.v, <<"h","o","u","r">>)
    THEN IF int_raises(digits_of(max_age.v))
         THEN DefaultMaxSeconds
         ELSE int_of(digits_of(max_age.v)) * SecondsPerHour
    ELSE DefaultMaxSeconds

\* Lines 560-567, for a str max_age.
max_seconds_of(max_age) ==
    IF Contains(lower(max_age.v), <<"h","o","u","r">>)
    THEN IF int_raises(digits_of(max_age.v))
         THEN DefaultMaxSeconds
         ELSE int_of(digits_of(max_age.v)) * SecondsPerHour
    ELSE DefaultMaxSeconds

\* freshness_part with the rule placed on the last timestamp column
freshness_part_last_column(info) ==
    LET timestamp_cols == timestamp_cols_of(info)
        max_age == max_age_of(info)
    IN IF Len(timestamp_cols) > 0
       THEN <<Stmt("-- PART 5: FRESHNESS SLA", <<max_age, max_seconds_of(max_age)>>),
              Stmt("FRESHNESS",
                   <<full_table_name(info), timestamp_cols[Len(timestamp_cols)],
                     <<"f","r","e","s","h","n","e","s","s","_","s","l","a">>,
                     "<=", max_seconds_of(max_age)>>)>>
       ELSE <<>>

\* Lines 569-582.
freshness_part(info) ==
    LET timestamp_cols == timestamp_cols_of(info)
        max_age == max_age_of(info)
    IN IF Len(timestamp_cols) > 0
       THEN <<Stmt("-- PART 5: FRESHNESS SLA", <<max_age, max_seconds_of(max_age)>>),
              Stmt("FRESHNESS",
                   <<full_table_name(info), timestamp_cols[1], <<"f","r","e","s","h","n","e","s","s","_","s","l","a">>,
                     "<=", max_seconds_of(max_age)>>)>>
       ELSE <<>>

\* threshold_after falling back to the default on a threshold it cannot parse
threshold_after_back_to_default(row_threshold, metric) ==
    LET threshold_str == get(metric, "threshold", EmptyStr) IN
    IF ~IsStr(threshold_str) THEN DefaultRowThreshold
    ELSE IF int_raises(digits_of(threshold_str.v)) THEN DefaultRowThreshold
    ELSE int_of(digits_of(threshold_str.v))

\* Lines 592-596: the try block; any exception keeps row_threshold.
threshold_after(row_threshold, metric) ==
    LET threshold_str == get(metric, "threshold", EmptyStr) IN
    IF ~IsStr(threshold_str) THEN row_threshold
    ELSE IF int_raises(digits_of(threshold_str.v)) THEN row_threshold
    ELSE int_of(digits_of(threshold_str.v))

\* Lines 586-596.
RECURSIVE row_threshold_from(_, _)
row_threshold_from(row_threshold, metrics) ==
    IF Len(metrics) = 0 THEN row_threshold
    ELSE LET metric == Head(metrics) IN
         row_threshold_from(
            IF IsDict(metric)
               /\ PyEq(get(metric, "name", None), S(<<"r","o","w","_","c","o","u","n","t">>))
            THEN threshold_after(row_threshold, metric)
            ELSE row_threshold,
            Tail(metrics))

row_threshold_of(info) ==
    row_threshold_from(DefaultRowThreshold,
        get(get(info.data_quality, "monitoring", EmptyDict), "metrics", EmptyList).v)

\* Lines 598-609.
row_count_part(info) ==
    <<Stmt("-- PART 6: ROW COUNT THRESHOLD", <<row_threshold_of(info)>>),
      Stmt("ROW_COUNT",
           <<full_table_name(info), <<"m","i","n","_","r","o","w","_","c","o","u","n","t">>,
             ">=", row_threshold_of(info)>>)>>

\* The calls of generate_dmf_sql that raise outside a try block: .items() /
\* .get on a value that is not a dict (lines 488, 557, 589), .lower() on a
\* value that is not a str (lines 518, 554, 560), a membership test or a loop
\* over a value that is not iterable (lines 528, 553, 590).
dmf_raises(info) ==
    \/ ~IsDict(get(info.data_quality, "completeness", EmptyDict))
    \/ Truthy(info.primary_key) /\ ~IsStr(info.primary_key)
    \/ \E i \in DOMAIN info.columns : info.columns[i].tags.t \notin {"list", "str"}
    \/ ~IsDict(get(info.data_quality, "freshness", EmptyDict))
    \/ ~IsStr(max_age_of(info))
    \/ ~IsDict(get(info.data_quality, "monitoring", EmptyDict))
    \/ ~IsList(get(get(info.data_quality, "monitoring", EmptyDict), "metrics", EmptyList))

\* generate_dmf_sql with the freshness section built before the cardinality
\* section
generate_dmf_sql_freshness_first(info, now) ==
    IF dmf_raises(info) THEN Raise("AttributeError") ELSE
    LET required_columns == required_columns_of(info) IN
    Ok(<<Stmt("-- DATA METRIC FUNCTIONS: Generated from Data Contract",
              <<info.name, info.version, now>>),
         Stmt("USE ROLE", <<"ACCOUNTADMIN">>),
         Stmt("USE DATABASE", <<info.target_database>>),
         Stmt("USE SCHEMA", <<info.target_schema>>),
         Stmt("-- PART 1: SET DMF SCHEDULE", <<>>),
         Stmt("SET DATA_METRIC_SCHEDULE",
              <<full_table_name(info), "USING CRON 0,30 * * * * UTC">>),
         Stmt("-- PART 2: COMPLETENESS CHECKS (NULL_COUNT)", <<>>)>>
       \o [i \in DOMAIN required_columns |-> null_count_stmt(info, required_columns[i])]
       \o uniqueness_part(info)
       \o freshness_part(info)
       \o cardinality_part(info)
       \o row_count_part(info)
       \o <<Stmt("-- PART 7: VERIFY DMF CONFIGURATION", <<>>),
            Stmt("SELECT FROM INFORMATION_SCHEMA.DATA_METRIC_FUNCTION_REFERENCES",
                 <<full_table_name(info)>>),
            Stmt("SELECT FROM SYSTEM$EVALUATE_DATA_QUALITY_EXPECTATIONS",
                 <<full_table_name(info)>>),
            Stmt("-- SETUP COMPLETE", <<>>)>>)

\* generate_dmf_sql(contract_info) read at clock value now.
generate_dmf_sql(info, now) ==
    IF dmf_raises(info) THEN Raise("AttributeError") ELSE
    LET required_columns == required_columns_of(info) IN
    Ok(<<Stmt("-- DATA METRIC FUNCTIONS: Generated from Data Contract",
              <<info.name, info.version, now>>),
         Stmt("USE ROLE", <<"ACCOUNTADMIN">>),
         Stmt("USE DATABASE", <<info.target_database>>),
         Stmt("USE SCHEMA", <<info.target_schema>>),
         Stmt("-- PART 1: SET DMF SCHEDULE", <<>>),
         Stmt("SET DATA_METRIC_SCHEDULE",
              <<full_table_name(info), "USING CRON 0,30 * * * * UTC">>),
         Stmt("-- PART 2: COMPLETENESS CHECKS (NULL_COUNT)", <<>>)>>
       \o [i \in DOMAIN required_columns |-> null_count_stmt(info, required_columns[i])]
       \o uniqueness_part(info)
       \o cardinality_part(info)
       \o freshness_part(info)
       \o row_count_part(info)
       \o <<Stmt("-- PART 7: VERIFY DMF CONFIGURATION", <<>>),
            Stmt("SELECT FROM INFORMATION_SCHEMA.DATA_METRIC_FUNCTION_REFERENCES",
                 <<full_table_name(info)>>),
            Stmt("SELECT FROM SYSTEM$EVALUATE_DATA_QUALITY_EXPECTATIONS",
                 <<full_table_name(info)>>),
            Stmt("-- SETUP COMPLETE", <<>>)>>)

----------------------------------------------------------------------------
(* What a generator call leaves in the contract_info it was handed *)

\* generate_schema_yml builds sources_yaml, columns_yaml and models_yaml anew
\* (lines 300-363) and assigns to nothing reachable from contract_info.
info_after_generate_schema_yml(info) == info

\* generate_masking_policies_sql only appends to its own sql_parts (386-444).
info_after_generate_masking_policies_sql(info) == info

\* generate_dmf_sql that sets required on the primary-key column in place
info_after_dmf_marks_primary_key(info) ==
    [info EXCEPT !.columns =
        [i \in DOMAIN @ |->
            IF PyEq(@[i].name, info.primary_key)
            THEN [@[i] EXCEPT !.required = B(TRUE)]
            ELSE @[i]]]

\* generate_dmf_sql appends to and inserts into required_columns, a list the
\* comprehension of line 485 creates; contract_info is only read.
info_after_generate_dmf_sql(info) == info

----------------------------------------------------------------------------
(* CORTEX *)

\* call_cortex without the try / except of lines 645-654
call_cortex_propagates(outcome) ==
    CASE outcome.kind = "raises" -> Raise("SnowparkSQLException")
      [] outcome.kind = "no rows" -> Ok(<<"-- Error: No response from Cortex">>)
      [] outcome.kind = "response" ->
            IF Truthy(outcome.response) THEN Ok(outcome.response.v)
            ELSE Ok(<<"-- Error: No response from Cortex">>)

\* call_cortex, by what session.sql(sql).collect() does: it raises, returns
\* no rows, returns a row whose RESPONSE is None or '', or returns text.
call_cortex(outcome) ==
    CASE outcome.kind = "raises" -> Ok(<<"-- Error generating code: ", outcome.text>>)
      [] outcome.kind = "no rows" -> Ok(<<"-- Error: No response from Cortex">>)
      [] outcome.kind = "response" ->
            IF Truthy(outcome.response) THEN Ok(outcome.response.v)
            ELSE Ok(<<"-- Error: No response from Cortex">>)

----------------------------------------------------------------------------
(* Text *)

customer_id == <<"c","u","s","t","o","m","e","r","_","i","d">>
segment == <<"s","e","g","m","e","n","t">>
loaded == <<"l","o","a","d","e","d">>
string == <<"s","t","r","i","n","g">>
timestamp_ntz == <<"t","i","m","e","s","t","a","m","p","_","n","t","z">>
DB_RAW_CUSTOMERS == <<"D","B",".","R","A","W",".","C","U","S","T","O","M","E","R","S">>
CUSTOMERS == <<"C","U","S","T","O","M","E","R","S">>
ORDERS == <<"O","R","D","E","R","S">>
RAW_dot == <<"R","A","W",".">>
ANALYST == <<"A","N","A","L","Y","S","T">>
analyst == <<"a","n","a","l","y","s","t">>
manager == <<"m","a","n","a","g","e","r">>

----------------------------------------------------------------------------
(* The contracts drawn *)

MaxTables == 2
MaxCols == 2
MaxPolicies == 2
MaxCompleteness == 1
MaxRequests == 2

Absent == [t |-> "absent", v |-> <<>>]

\* the entry key: val of a mapping, or nothing when the key is left out
Opt(key, val) == IF val.t = "absent" THEN <<>> ELSE <<KV(key, val)>>

\* the sequences over set of length at most n
SeqsUpTo(set, n) == UNION {[1..k -> set] : k \in 0..n}

\* the sequences without repeated element
Distinct(seqs) == {q \in seqs : \A i, j \in DOMAIN q : q[i] = q[j] => i = j}

Destination ==
    D(<<KV("database", S(<<"D","B">>)), KV("schema", S(<<"D","P">>)),
        KV("table", S(<<"C","H","U","R","N">>))>>)

Metadata ==
    D(<<KV("name", S(<<"c","h","u","r","n">>)), KV("version", S(<<"2",".","0">>))>>)

\* upstream_tables: structured entries, legacy strings, and mixes of both
StructuredTable ==
    D(<<KV("name", S(ORDERS)), KV("location", S(RAW_dot \o ORDERS))>>)

UpstreamItems ==
    {StructuredTable, S(DB_RAW_CUSTOMERS), S(ORDERS), S(RAW_dot)}

UpstreamShapes ==
    {Absent, None} \cup {L(q) : q \in SeqsUpTo(UpstreamItems, MaxTables)}

OneColumnSchema ==
    D(<<KV("primary_key", S(customer_id)),
        KV("properties", D(<<KV(customer_id, D(<<KV("type", S(string))>>))>>))>>)

\* the spec sections the extractor reads, each left out, null or given
ExtractSpecs ==
    {D(Opt("source", source) \o Opt("schema", schema) \o Opt("data_quality", dq)
       \o Opt("destination", destination)) :
        source \in {Absent, None} \cup {D(Opt("upstream_tables", u)) : u \in UpstreamShapes},
        schema \in {Absent, None, OneColumnSchema},
        dq \in {Absent, None, EmptyDict},
        destination \in {Absent, Destination}}

\* documents that are no mapping, and mappings with or without metadata / spec
ExtractContracts ==
    {None, S(<<"x">>), L(<<S(<<"x">>)>>), I(7)}
    \cup {D(Opt("metadata", metadata) \o Opt("spec", spec)) :
            metadata \in {Absent, None, Metadata},
            spec \in {Absent, None} \cup ExtractSpecs}

----------------------------------------------------------------------------
(* The script run *)

Unset == [t |-> "unset", v |-> <<>>]

NoResults ==
    [generated_model |-> Unset, generated_schema |-> Unset,
     generated_masking |-> Unset, generated_dmf |-> Unset, model_name |-> Unset]

\* the values datetime.now().isoformat() takes
Clock == {"t1", "t2"}

\* no generator called yet: the first text each returned (per clock value for
\* the two that print it) and the clock value of the latest call
NoRuns ==
    [schema |-> Unset,
     masking |-> [now \in Clock |-> Unset],
     dmf |-> [now \in Clock |-> Unset],
     masking_at |-> "never",
     dmf_at |-> "never"]

InitWith(contracts) ==
    /\ contract \in contracts
    /\ contract_info = Unset
    /\ pc = "parse"
    /\ cortex_outcome = Unset
    /\ dbt_model_code = Unset
    /\ schema_yml = Unset
    /\ masking_sql = Unset
    /\ dmf_sql = Unset
    /\ session_state = NoResults
    /\ requests = 0
    /\ runs = NoRuns

\* Lines 772-835: a truthy document is handed to extract_contract_info and
\* the extracted model is displayed; an exception ends the script run.
Extract ==
    /\ pc = "parse"
    /\ Truthy(contract)
    /\ contract_info' = extract_contract_info(contract)
    /\ pc' = IF IsRaise(extract_contract_info(contract)) THEN "crashed"
             ELSE IF review_raises(extract_contract_info(contract).v) THEN "crashed"
             ELSE "review"
    /\ UNCHANGED <<contract, cortex_outcome, dbt_model_code, schema_yml,
                   masking_sql, dmf_sql, session_state, requests, runs>>

\* generate_schema_yml(contract_info), called on the extracted model
RunSchema ==
    /\ pc = "review"
    /\ schema_yml' = generate_schema_yml(contract_info.v)
    /\ contract_info' = Ok(info_after_generate_schema_yml(contract_info.v))
    /\ runs' = IF runs.schema = Unset
               THEN [runs EXCEPT !.schema = generate_schema_yml(contract_info.v)]
               ELSE runs
    /\ UNCHANGED <<contract, pc, cortex_outcome, dbt_model_code, masking_sql,
                   dmf_sql, session_state, requests>>

\* generate_masking_policies_sql(contract_info), called on the extracted model
RunMasking ==
    /\ pc = "review"
    /\ \E now \in Clock :
        /\ masking_sql' = generate_masking_policies_sql(contract_info.v, now)
        /\ runs' = [runs EXCEPT
                      !.masking[now] =
                          IF @ = Unset
                          THEN generate_masking_policies_sql(contract_info.v, now)
                          ELSE @,
                      !.masking_at = now]
    /\ contract_info' = Ok(info_after_generate_masking_policies_sql(contract_info.v))
    /\ UNCHANGED <<contract, pc, cortex_outcome, dbt_model_code, schema_yml,
                   dmf_sql, session_state, requests>>

\* generate_dmf_sql(contract_info), called on the extracted model
RunDmf ==
    /\ pc = "review"
    /\ \E now \in Clock :
        /\ dmf_sql' = generate_dmf_sql(contract_info.v, now)
        /\ runs' = [runs EXCEPT
                      !.dmf[now] =
                          IF @ = Unset THEN generate_dmf_sql(contract_info.v, now)
                          ELSE @,
                      !.dmf_at = now]
    /\ contract_info' = Ok(info_after_generate_dmf_sql(contract_info.v))
    /\ UNCHANGED <<contract, pc, cortex_outcome, dbt_model_code, schema_yml,
                   masking_sql, session_state, requests>>

InitExtract == InitWith(ExtractContracts)
SpecExtract == InitExtract /\ [][Extract]_vars

----------------------------------------------------------------------------
(* Claims about extract_contract_info *)

\* spec.source.upstream_tables of a document that was extracted
upstream_tables_in(doc) ==
    get(get(get(doc, "spec", EmptyDict), "source", EmptyDict),
        "upstream_tables", EmptyList)

AllLegacy(u) ==
    IsList(u) /\ Len(u.v) > 0 /\ \A i \in DOMAIN u.v : IsStr(u.v[i])

\* name is what follows the last dot of s (all of s when it has no dot)
IsLastSegment(name, s) ==
    /\ Len(name) <= Len(s)
    /\ \A i \in DOMAIN name : name[i] # "." /\ name[i] = s[Len(s) - Len(name) + i]
    /\ Len(name) < Len(s) => s[Len(s) - Len(name)] = "."

\* C5: a list of legacy strings becomes, in the same order, one entry
\* {name: final dot-separated segment, location: the string} per string;
\* ["DB.RAW.CUSTOMERS"] becomes {name: CUSTOMERS, location: DB.RAW.CUSTOMERS}.
C5_LegacySourceTables ==
    (pc = "review" /\ AllLegacy(upstream_tables_in(contract))) =>
        LET u == upstream_tables_in(contract).v
            st == contract_info.v.source_tables
        IN /\ IsList(st)
           /\ Len(st.v) = Len(u)
           /\ \A i \in DOMAIN u :
                /\ IsDict(st.v[i])
                /\ [j \in DOMAIN st.v[i].v |-> st.v[i].v[j].k] = <<"name", "location">>
                /\ st.v[i].v[2].v = u[i]
                /\ IsStr(st.v[i].v[1].v)
                /\ IsLastSegment(st.v[i].v[1].v.v, u[i].v)
           /\ u = <<S(DB_RAW_CUSTOMERS)>> =>
                st = L(<<D(<<KV("name", S(CUSTOMERS)),
                             KV("location", S(DB_RAW_CUSTOMERS))>>)>>)

C5_Witness ==
    /\ pc = "review"
    /\ upstream_tables_in(contract) = L(<<S(DB_RAW_CUSTOMERS), S(ORDERS)>>)
    /\ contract_info.v.source_tables =
         L(<<D(<<KV("name", S(CUSTOMERS)), KV("location", S(DB_RAW_CUSTOMERS))>>),
             D(<<KV("name", S(ORDERS)), KV("location", S(ORDERS))>>)>>)

\* the document is no mapping, or its top-level spec is missing or null
NoSpec(doc) ==
    ~IsDict(doc) \/ ~HasKey(doc, "spec") \/ get(doc, "spec", None) = None

\* the model of a document without spec: every field at its default
DefaultModel(doc) ==
    LET metadata == IF IsDict(doc) /\ IsDict(get(doc, "metadata", EmptyDict))
                    THEN get(doc, "metadata", EmptyDict) ELSE EmptyDict
    IN [name |-> get(metadata, "name", S(<<"u","n","k","n","o","w","n">>)),
        version |-> get(metadata, "version", S(<<"1",".","0",".","0">>)),
        title |-> EmptyStr, description |-> EmptyStr, owner |-> EmptyDict,
        source_tables |-> EmptyList, target_database |-> EmptyStr,
        target_schema |-> EmptyStr, target_table |-> EmptyStr,
        materialization |-> S(<<"t","a","b","l","e">>), columns |-> <<>>,
        grain |-> EmptyStr, primary_key |-> EmptyStr, data_quality |-> EmptyDict,
        business_rules |-> EmptyList, masking_policies |-> EmptyDict,
        access_control |-> EmptyDict, sla |-> EmptyDict]

\* C9: extract_contract_info never fails, and a document that is no mapping
\* or has no (or a null) spec section yields the all-default model.
C9_ExtractNeverFails ==
    contract_info # Unset =>
        /\ ~IsRaise(contract_info)
        /\ NoSpec(contract) => contract_info.v = DefaultModel(contract)

\* C10: whatever the shape of upstream_tables, every element of source_tables
\* is a mapping with name and location, never a bare string.
C10_SourceTablesStructured ==
    pc = "review" =>
        \A i \in DOMAIN contract_info.v.source_tables.v :
            LET table == contract_info.v.source_tables.v[i] IN
            IsDict(table) /\ HasKey(table, "name") /\ HasKey(table, "location")

----------------------------------------------------------------------------
(* Claims about generate_schema_yml *)

ColumnNames == {customer_id, segment, loaded}

\* the column specs drawn for the manifest: required left out, true or false,
\* with and without tags
SchemaColumnSpecs ==
    {D(Opt("type", S(string)) \o Opt("constraints", constraints) \o Opt("tags", tags)) :
        constraints \in {Absent, D(<<KV("required", B(TRUE))>>),
                         D(<<KV("required", B(FALSE))>>)},
        tags \in {Absent, L(<<S(TagName("tier"))>>)}}

\* the properties mappings with at most n columns drawn from colspecs
PropertiesUpTo(colspecs, n) ==
    {D([i \in DOMAIN names |-> KV(names[i], specs[i])]) :
        <<names, specs>> \in
            UNION {Distinct([1..k -> ColumnNames]) \X [1..k -> colspecs] : k \in 0..n}}

\* a contract with the given spec sections
ContractOf(sections) ==
    D(<<KV("metadata", Metadata),
        KV("spec", D(<<KV("destination", Destination)>> \o sections))>>)

SchemaContracts ==
    {ContractOf(<<KV("schema", D(Opt("primary_key", pk) \o <<KV("properties", props)>>))>>) :
        pk \in {Absent, S(customer_id), S(segment), S(<<"z","z">>)},
        props \in PropertiesUpTo(SchemaColumnSpecs, MaxCols)}

InitSchema == InitWith(SchemaContracts)
SpecSchema == InitSchema /\ [][Extract \/ RunSchema]_vars

\* C1: in the manifest every column named primary_key carries unique and
\* not_null, every other required column carries only not_null, and every
\* other column carries no tests.
C1_ColumnTests ==
    schema_yml # Unset =>
        LET info == contract_info.v
            cols == schema_yml.v.models.columns
        IN /\ ~IsRaise(schema_yml)
           /\ Len(cols) = Len(info.columns)
           /\ \A i \in DOMAIN cols :
                /\ cols[i].name = info.columns[i].name
                /\ (cols[i].name = info.primary_key)
                      => cols[i].tests = <<"unique", "not_null">>
                /\ (cols[i].name # info.primary_key /\ info.columns[i].required = B(TRUE))
                      => cols[i].tests = <<"not_null">>
                /\ (cols[i].name # info.primary_key /\ info.columns[i].required = B(FALSE))
                      => cols[i].tests = <<>>
                /\ info.columns[i].required = B(TRUE)
                      => \E j \in DOMAIN cols[i].tests : cols[i].tests[j] = "not_null"

\* a manifest with a required primary-key column and a required other column
C1_Witness ==
    /\ schema_yml # Unset
    /\ \E i, j \in DOMAIN schema_yml.v.models.columns :
        /\ schema_yml.v.models.columns[i].name = contract_info.v.primary_key
        /\ contract_info.v.columns[i].required = B(TRUE)
        /\ schema_yml.v.models.columns[i].tests = <<"unique", "not_null">>
        /\ i # j
        /\ contract_info.v.columns[j].required = B(TRUE)
        /\ schema_yml.v.models.columns[j].tests = <<"not_null">>

----------------------------------------------------------------------------
(* Claims about generate_masking_policies_sql *)

NAME_MASK == <<"N","A","M","E","_","M","A","S","K">>
EMAIL_MASK == <<"E","M","A","I","L","_","M","A","S","K">>
Ssn_Mask == <<"S","s","n","_","M","a","s","k">>
customer_name == <<"c","u","s","t","o","m","e","r","_","n","a","m","e">>

PolicyNames == {NAME_MASK, EMAIL_MASK, Ssn_Mask}

\* a policy with its own roles left out, empty or given; one attached to a
\* column; one whose applies_to is the empty text
PolicyDefs ==
    {D(Opt("authorized_roles", roles)) : roles \in {Absent, EmptyList, L(<<S(manager)>>)}}
    \cup {D(<<KV("applies_to", S(customer_name)), KV("authorized_roles", L(<<S(manager)>>))>>),
          D(<<KV("applies_to", EmptyStr)>>)}

MaskingPolicyMaps ==
    {D([i \in DOMAIN names |-> KV(names[i], defs[i])]) :
        <<names, defs>> \in
            UNION {Distinct([1..k -> PolicyNames]) \X [1..k -> PolicyDefs] :
                     k \in 0..MaxPolicies}}

AccessControls ==
    {Absent, EmptyDict,
     D(<<KV("authorized_roles", L(<<S(ANALYST)>>))>>),
     D(<<KV("authorized_roles", L(<<S(analyst), S(manager)>>))>>)}

MaskingContracts ==
    {ContractOf(Opt("masking_policies", policies) \o Opt("access_control", ac)) :
        policies \in {Absent, None} \cup MaskingPolicyMaps,
        ac \in AccessControls}

InitMasking == InitWith(MaskingContracts)
SpecMasking == InitMasking /\ [][Extract \/ RunMasking]_vars

IsCreatePolicy(statement) == statement.stmt = "CREATE OR REPLACE MASKING POLICY"

\* the statements of a kind, in order
StmtsOf(sql, kind) == SelectSeq(sql, LAMBDA statement : statement.stmt = kind)

\* the role clauses of the policy-creation statements, in order
EmittedRoles(sql) ==
    LET creates == SelectSeq(sql, IsCreatePolicy)
    IN [i \in DOMAIN creates |-> creates[i].args[3]]

\* the claimed precedence: the policy's own roles if non-empty, otherwise the
\* top-level roles, otherwise none
ResolvedRoles(policy_def, access_control) ==
    IF Truthy(get(policy_def, "authorized_roles", EmptyList))
    THEN get(policy_def, "authorized_roles", EmptyList)
    ELSE get(access_control, "authorized_roles", EmptyList)

\* C3: each policy's emitted role clause is its own authorized_roles if
\* non-empty, otherwise the contract's top-level authorized_roles, otherwise
\* empty; own [] under top-level ["ANALYST"] yields 'ANALYST'.
C3_RolePrecedence ==
    (masking_sql # Unset /\ Truthy(contract_info.v.masking_policies)) =>
        LET info == contract_info.v
            policies == info.masking_policies.v
        IN /\ ~IsRaise(masking_sql)
           /\ Len(EmittedRoles(masking_sql.v)) = Len(policies)
           /\ \A i \in DOMAIN policies :
                LET resolved == ResolvedRoles(policies[i].v, info.access_control).v
                IN EmittedRoles(masking_sql.v)[i] =
                      [j \in DOMAIN resolved |-> upper(resolved[j].v)]

\* C11: when masking_policies is left out, null or the empty mapping, the
\* masking script is the one comment line "No masking policies defined in
\* contract": no header, no USE statement, no policy statement.
C11_NoPoliciesComment ==
    (masking_sql # Unset /\ ~Truthy(contract_info.v.masking_policies)) =>
        /\ masking_sql = Ok(<<Stmt("-- No masking policies defined in contract", <<>>)>>)
        /\ Len(masking_sql.v) = 1
        /\ StmtsOf(masking_sql.v, "USE ROLE") = <<>>
        /\ StmtsOf(masking_sql.v, "CREATE OR REPLACE MASKING POLICY") = <<>>

\* the script of a contract that gives masking_policies as the empty mapping
\* and names top-level roles
C11_Witness ==
    /\ masking_sql # Unset
    /\ HasKey(contract.v[2].v, "masking_policies")
    /\ contract_info.v.masking_policies = EmptyDict
    /\ Truthy(get(contract_info.v.access_control, "authorized_roles", EmptyList))
    /\ masking_sql.v[1].stmt = "-- No masking policies defined in contract"

\* the policies with a non-empty applies_to, in map order
Attached(policies) ==
    SelectSeq(policies, LAMBDA entry : Truthy(get(entry.v, "applies_to", EmptyStr)))

\* the roles line 402 hands to the statement: the policy's own entry when it
\* has one, the top-level roles otherwise
RolesGiven(policy_def, access_control) ==
    IF HasKey(policy_def, "authorized_roles")
    THEN get(policy_def, "authorized_roles", EmptyList).v
    ELSE get(access_control, "authorized_roles", EmptyList).v

\* C19: for a non-empty masking_policies map the script has one
\* policy-creation statement per entry, in map order, with every role
\* upper-cased, and one attach statement on database.schema.table for
\* exactly the policies with a non-empty applies_to.
C19_PolicyStatements ==
    (masking_sql # Unset /\ Truthy(contract_info.v.masking_policies)) =>
        LET info == contract_info.v
            policies == info.masking_policies.v
            creates == StmtsOf(masking_sql.v, "CREATE OR REPLACE MASKING POLICY")
            attaches == StmtsOf(masking_sql.v, "ALTER TABLE IF EXISTS")
        IN /\ ~IsRaise(masking_sql)
           /\ Len(creates) = Len(policies)
           /\ \A i \in DOMAIN policies :
                LET given == RolesGiven(policies[i].v, info.access_control) IN
                /\ creates[i].args[1] = lower(policies[i].k)
                /\ creates[i].args[3] = [j \in DOMAIN given |-> upper(given[j].v)]
                /\ \A j \in DOMAIN creates[i].args[3] :
                      \A c \in DOMAIN creates[i].args[3][j] :
                          creates[i].args[3][j][c] \notin {LowerChars[n] : n \in DOMAIN LowerChars}
           /\ attaches =
                [i \in DOMAIN Attached(policies) |->
                    Stmt("ALTER TABLE IF EXISTS",
                         <<info.target_database, info.target_schema, info.target_table,
                           get(Attached(policies)[i].v, "applies_to", EmptyStr),
                           lower(Attached(policies)[i].k)>>)]

\* two policies: the first with an empty applies_to and no attach statement,
\* the second attached to customer_name and open to MANAGER
C19_Witness ==
    /\ masking_sql # Unset
    /\ ~IsRaise(masking_sql)
    /\ Len(contract_info.v.masking_policies.v) = 2
    /\ contract_info.v.masking_policies.v[1].k = Ssn_Mask
    /\ contract_info.v.masking_policies.v[1].v = D(<<KV("applies_to", EmptyStr)>>)
    /\ contract_info.v.masking_policies.v[2].k = NAME_MASK
    /\ StmtsOf(masking_sql.v, "CREATE OR REPLACE MASKING POLICY")[2].args[3]
         = <<<<"M","A","N","A","G","E","R">>>>
    /\ Len(StmtsOf(masking_sql.v, "ALTER TABLE IF EXISTS")) = 1
    /\ StmtsOf(masking_sql.v, "ALTER TABLE IF EXISTS")[1].args[4] = S(customer_name)
    /\ StmtsOf(masking_sql.v, "ALTER TABLE IF EXISTS")[1].args[5]
         = <<"n","a","m","e","_","m","a","s","k">>

----------------------------------------------------------------------------
(* Claims about generate_dmf_sql *)

\* columns that are required or not
KeyColumnSpecs ==
    {D(<<KV("constraints", D(<<KV("required", B(TRUE))>>))>>), EmptyDict}

\* data_quality.completeness: percentages per column name, in order
CompletenessMaps ==
    {D([i \in DOMAIN names |-> KV(names[i], pcts[i])]) :
        <<names, pcts>> \in
            UNION {Distinct([1..k -> ColumnNames]) \X [1..k -> {I(100), I(95)}] :
                     k \in 0..MaxCompleteness}}

KeyContract(pk, props, dq) ==
    ContractOf(<<KV("schema", D(Opt("primary_key", pk) \o <<KV("properties", props)>>))>>
               \o Opt("data_quality", dq))

\* contracts over the inputs of the completeness and uniqueness rules: every
\* column list under four completeness sections, and every completeness map
\* over at most one column
DmfKeyContracts ==
    {KeyContract(pk, props, dq) :
        pk \in {Absent, S(customer_id), S(segment), S(<<"z","z">>)},
        props \in PropertiesUpTo(KeyColumnSpecs, MaxCols),
        dq \in {Absent, D(<<KV("completeness", D(<<KV(customer_id, I(100))>>))>>),
                D(<<KV("completeness", D(<<KV(loaded, I(100))>>))>>),
                D(<<KV("completeness", D(<<KV(loaded, I(95))>>))>>)}}
    \cup
    {KeyContract(pk, props, D(<<KV("completeness", c)>>)) :
        pk \in {Absent, S(customer_id), S(segment), S(<<"z","z">>)},
        props \in PropertiesUpTo(KeyColumnSpecs, 1),
        c \in CompletenessMaps}

\* max_age texts: digits, a unit, and an optional trailing "30m"
AgeDigits == {<<>>, <<"4","8">>, <<"2">>, <<"0","7">>, <<"SUPERSCRIPT TWO">>}
AgeUnits ==
    {<<" ","h","o","u","r","s">>, <<"H","o","u","r">>, <<" ","H","O","U","R","S">>,
     <<" ","d","a","y","s">>, <<"h">>, <<>>}
AgeSuffixes == {<<>>, <<" ","3","0","m">>}

MaxAges == {S(d \o u \o x) : d \in AgeDigits, u \in AgeUnits, x \in AgeSuffixes}

\* columns that are or are not timestamps, by type or by tag
FreshColumnSpecs ==
    {D(<<KV("type", S(timestamp_ntz))>>),
     D(<<KV("type", S(string)), KV("tags", L(<<S(TagName("timestamp"))>>))>>),
     D(<<KV("type", S(string))>>)}

FreshnessContract(props, max_age) ==
    ContractOf(<<KV("schema", D(<<KV("properties", props)>>)),
                 KV("data_quality", D(<<KV("freshness", D(Opt("max_age", max_age)))>>))>>)

\* contracts over the inputs of the freshness rule: every max_age text on at
\* most one column, and every column list under three max_age texts
DmfFreshnessContracts ==
    {FreshnessContract(props, max_age) :
        props \in PropertiesUpTo(FreshColumnSpecs, 1),
        max_age \in {Absent} \cup MaxAges}
    \cup
    {FreshnessContract(props, max_age) :
        props \in PropertiesUpTo(FreshColumnSpecs, MaxCols),
        max_age \in {Absent, S(<<"4","8"," ","h","o","u","r","s">>),
                     S(<<"2"," ","d","a","y","s">>)}}

\* the end-to-end contract: primary key customer_id, the one required column
\* customer_id, max_age "25 hours", nothing else declared; the column's type
\* and tags are what the description leaves open
EndToEndContracts ==
    {ContractOf(<<KV("schema",
                     D(<<KV("primary_key", S(customer_id)),
                         KV("properties",
                            D(<<KV(customer_id,
                                   D(Opt("type", type)
                                     \o <<KV("constraints", D(<<KV("required", B(TRUE))>>))>>
                                     \o Opt("tags", tags)))>>))>>)),
                  KV("data_quality",
                     D(<<KV("freshness",
                            D(<<KV("max_age", S(<<"2","5"," ","h","o","u","r","s">>))>>))>>))>>) :
        type \in {Absent, S(string), S(timestamp_ntz)},
        tags \in {Absent, L(<<S(TagName("timestamp"))>>)}}

\* columns over the inputs of the cardinality and freshness sections: a
\* dimension tag, an enum constraint, a timestamp type, none
SectionColumnSpecs ==
    {D(<<KV("tags", L(<<S(TagName("tier"))>>))>>),
     D(<<KV("tags", L(<<S(<<"p","i","i">>), S(TagName("geography"))>>))>>),
     D(<<KV("constraints", D(<<KV("enum", L(<<S(<<"A">>), S(<<"B">>)>>))>>))>>),
     D(<<KV("type", S(timestamp_ntz))>>),
     EmptyDict}

DmfSectionContracts ==
    {ContractOf(<<KV("schema", D(Opt("primary_key", pk) \o <<KV("properties", props)>>))>>) :
        pk \in {Absent, S(customer_id)},
        props \in PropertiesUpTo(SectionColumnSpecs, MaxCols)}

Risk_Calculated_At ==
    <<"R","i","s","k","_","C","a","l","c","u","l","a","t","e","d","_","A","t">>

\* contracts with a column that is a timestamp by its name only, before and
\* after a column that is one by type or is none
CalculatedAtContracts ==
    {ContractOf(<<KV("schema", D(<<KV("properties", D(q))>>))>>) :
        q \in UNION {{<<KV(Risk_Calculated_At, EmptyDict), KV(loaded, other)>>,
                      <<KV(loaded, other), KV(Risk_Calculated_At, EmptyDict)>>} :
                        other \in {EmptyDict, D(<<KV("type", S(timestamp_ntz))>>)}}}

MaxMetrics == 2

row_count == <<"r","o","w","_","c","o","u","n","t">>

\* entries of data_quality.monitoring.metrics: row_count with a threshold
\* text with digits, without digits, with a digit int() rejects, with a
\* number, with no threshold; another metric; a bare name
MetricItems ==
    {D(<<KV("name", S(row_count)), KV("threshold", S(<<">"," ","1",",","2","0"," ","r","o","w","s">>))>>),
     D(<<KV("name", S(row_count)), KV("threshold", S(<<"7">>))>>),
     D(<<KV("name", S(row_count)), KV("threshold", S(<<"n","/","a">>))>>),
     D(<<KV("name", S(row_count)), KV("threshold", S(<<"SUPERSCRIPT TWO">>))>>),
     D(<<KV("name", S(row_count)), KV("threshold", I(250))>>),
     D(<<KV("name", S(row_count))>>),
     D(<<KV("name", S(<<"n","u","l","l","s">>)), KV("threshold", S(<<"9">>))>>),
     S(row_count)}

DmfMonitoringContracts ==
    {ContractOf(<<KV("data_quality", D(<<KV("monitoring", monitoring)>>))>>) :
        monitoring \in {EmptyDict} \cup
            {D(<<KV("metrics", L(q))>>) : q \in SeqsUpTo(MetricItems, MaxMetrics)}}

\* contracts whose max_age is no text: a number, null, a list
DmfUntypedAgeContracts ==
    {FreshnessContract(props, max_age) :
        props \in PropertiesUpTo(FreshColumnSpecs, 1),
        max_age \in {I(25), None, L(<<S(<<"2","5">>), S(<<"h","o","u","r","s">>)>>)}}

CUSTOMER_ID == <<"C","U","S","T","O","M","E","R","_","I","D">>

\* contracts that name the column customer_id in upper case as primary key
\* or in completeness
DmfCaseContracts ==
    {KeyContract(pk, props, dq) :
        pk \in {Absent, S(CUSTOMER_ID)},
        props \in {D(<<KV(customer_id, spec)>>) : spec \in KeyColumnSpecs},
        dq \in {Absent, D(<<KV("completeness", D(<<KV(CUSTOMER_ID, I(100))>>))>>)}}

DmfContracts ==
    DmfKeyContracts \cup DmfFreshnessContracts \cup EndToEndContracts
    \cup DmfSectionContracts \cup CalculatedAtContracts \cup DmfMonitoringContracts
    \cup DmfUntypedAgeContracts \cup DmfCaseContracts

InitDmf == InitWith(DmfContracts)
SpecDmf == InitDmf /\ [][Extract \/ RunDmf]_vars

\* C2: a non-empty primary_key always gets a NULL_COUNT rule with VALUE = 0,
\* also when it is no required column and not in data_quality.completeness.
C2_PrimaryKeyNullCount ==
    (dmf_sql # Unset /\ Truthy(contract_info.v.primary_key)) =>
        /\ ~IsRaise(dmf_sql)
        /\ \E i \in DOMAIN dmf_sql.v :
            /\ dmf_sql.v[i].stmt = "NULL_COUNT"
            /\ dmf_sql.v[i].args[2] = contract_info.v.primary_key
            /\ dmf_sql.v[i].args[4] = "="
            /\ dmf_sql.v[i].args[5] = 0

\* the primary key is neither a required column nor listed in completeness,
\* other columns are, and the script has its rule
C2_Witness ==
    /\ dmf_sql # Unset
    /\ contract_info.v.primary_key = S(segment)
    /\ \E i \in DOMAIN contract_info.v.columns :
        /\ contract_info.v.columns[i].name = S(segment)
        /\ contract_info.v.columns[i].required = B(FALSE)
    /\ \E i \in DOMAIN contract_info.v.columns :
        contract_info.v.columns[i].required = B(TRUE)
    /\ get(contract_info.v.data_quality, "completeness", EmptyDict)
         = D(<<KV(customer_id, I(100))>>)
    /\ \E i \in DOMAIN dmf_sql.v :
        dmf_sql.v[i].stmt = "NULL_COUNT" /\ dmf_sql.v[i].args[2] = S(segment)

\* the hours a max_age text built from digits, unit and suffix states: the
\* number its digits spell, when the unit says hour and the digits are decimal
AgeDigitsValue(d) ==
    CASE d = <<"4","8">> -> 48
      [] d = <<"2">> -> 2
      [] d = <<"0","7">> -> 7
      [] d = <<>> -> 0

ExpectedSeconds(d, u, x) ==
    IF u \in {<<" ","h","o","u","r","s">>, <<"H","o","u","r">>, <<" ","H","O","U","R","S">>}
       /\ d # <<"SUPERSCRIPT TWO">>
       /\ (d # <<>> \/ x # <<>>)
    THEN (IF x = <<>> THEN AgeDigitsValue(d) ELSE AgeDigitsValue(d) * 100 + 30) * 3600
    ELSE 86400

\* the threshold of the freshness rule of a script
FreshnessThreshold(sql) == StmtsOf(sql, "FRESHNESS")[1].args[5]

\* C4: the freshness threshold is h * 3600 when max_age contains "hour" in
\* any case and its digits form the integer h, and 86400 otherwise;
\* "48 hours" gives 172800 and "2 days" gives 86400.
C4_FreshnessThreshold ==
    (dmf_sql # Unset /\ ~IsRaise(dmf_sql) /\ Len(StmtsOf(dmf_sql.v, "FRESHNESS")) > 0) =>
        LET max_age == get(get(contract_info.v.data_quality, "freshness", EmptyDict),
                           "max_age", Absent)
            seconds == FreshnessThreshold(dmf_sql.v)
        IN /\ \A d \in AgeDigits, u \in AgeUnits, x \in AgeSuffixes :
                max_age = S(d \o u \o x) => seconds = ExpectedSeconds(d, u, x)
           /\ max_age = S(<<"4","8"," ","h","o","u","r","s">>) => seconds = 172800
           /\ max_age = S(<<"2"," ","d","a","y","s">>) => seconds = 86400

C4_Witness ==
    /\ dmf_sql # Unset
    /\ max_age_of(contract_info.v) = S(<<"4","8"," ","H","O","U","R","S">>)
    /\ Len(StmtsOf(dmf_sql.v, "FRESHNESS")) = 1
    /\ FreshnessThreshold(dmf_sql.v) = 172800

\* the end-to-end contract as extracted: primary key customer_id, the single
\* column customer_id, required, max_age "25 hours", and no masking policy,
\* completeness entry, monitoring metric or dimension tag
IsEndToEnd(info) ==
    /\ info.primary_key = S(customer_id)
    /\ Len(info.columns) = 1
    /\ info.columns[1].name = S(customer_id)
    /\ info.columns[1].required = B(TRUE)
    /\ ~is_dimension(info.columns[1])
    /\ ~Truthy(info.masking_policies)
    /\ get(get(info.data_quality, "freshness", EmptyDict), "max_age", Absent)
         = S(<<"2","5"," ","h","o","u","r","s">>)
    /\ ~HasKey(info.data_quality, "completeness")
    /\ ~HasKey(info.data_quality, "monitoring")

\* what the end-to-end script holds besides its freshness section
EndToEndRules(info, sql) ==
    /\ StmtsOf(sql, "NULL_COUNT") =
         <<Stmt("NULL_COUNT",
                <<full_table_name(info), S(customer_id),
                  <<"n","o","_","n","u","l","l","_">> \o customer_id, "=", 0>>)>>
    /\ StmtsOf(sql, "DUPLICATE_COUNT") =
         <<Stmt("DUPLICATE_COUNT",
                <<full_table_name(info), S(customer_id),
                  <<"n","o","_","d","u","p","l","i","c","a","t","e","_">> \o customer_id,
                  "=", 0>>)>>
    /\ StmtsOf(sql, "-- PART 4: CARDINALITY TRACKING (UNIQUE_COUNT)") = <<>>
    /\ StmtsOf(sql, "UNIQUE_COUNT") = <<>>
    /\ Len(StmtsOf(sql, "ROW_COUNT")) = 1
    /\ StmtsOf(sql, "ROW_COUNT")[1].args[3] = ">="
    /\ StmtsOf(sql, "ROW_COUNT")[1].args[4] = 500

\* the one freshness rule on customer_id at 90000 seconds
EndToEndFreshness(sql) ==
    /\ Len(StmtsOf(sql, "FRESHNESS")) = 1
    /\ StmtsOf(sql, "FRESHNESS")[1].args[2] = S(customer_id)
    /\ StmtsOf(sql, "FRESHNESS")[1].args[4] = "<="
    /\ StmtsOf(sql, "FRESHNESS")[1].args[5] = 90000

\* C6 as claimed: the end-to-end script holds one completeness rule and one
\* uniqueness rule on customer_id, no cardinality section, one freshness rule
\* at 90000 seconds and one row-count rule at 500.
C6_EndToEndAsClaimed ==
    (dmf_sql # Unset /\ IsEndToEnd(contract_info.v)) =>
        /\ ~IsRaise(dmf_sql)
        /\ EndToEndRules(contract_info.v, dmf_sql.v)
        /\ EndToEndFreshness(dmf_sql.v)

\* C6 as amended: the same, with the freshness rule present exactly when
\* customer_id is declared with a timestamp type or carries the timestamp
\* tag, and no freshness section otherwise.
C6_EndToEnd ==
    (dmf_sql # Unset /\ IsEndToEnd(contract_info.v)) =>
        /\ ~IsRaise(dmf_sql)
        /\ EndToEndRules(contract_info.v, dmf_sql.v)
        /\ IF \/ contract_info.v.columns[1].type \in TimestampTypes
              \/ contract_info.v.columns[1].tags = L(<<S(TagName("timestamp"))>>)
           THEN EndToEndFreshness(dmf_sql.v)
           ELSE /\ StmtsOf(dmf_sql.v, "FRESHNESS") = <<>>
                /\ StmtsOf(dmf_sql.v, "-- PART 5: FRESHNESS SLA") = <<>>

\* the end-to-end script of a customer_id that is a plain string but tagged
\* timestamp: the freshness rule is there
C6_Witness ==
    /\ dmf_sql # Unset
    /\ IsEndToEnd(contract_info.v)
    /\ contract_info.v.columns[1].type = S(string)
    /\ contract_info.v.columns[1].tags = L(<<S(TagName("timestamp"))>>)
    /\ EndToEndFreshness(dmf_sql.v)

\* the columns of the no-null rules of a script, in order
NoNullColumns(sql) ==
    [i \in DOMAIN StmtsOf(sql, "NULL_COUNT") |-> StmtsOf(sql, "NULL_COUNT")[i].args[2]]

\* the columns declared required, and those listed at 100 in completeness
RequiredSet(info) ==
    {info.columns[i].name : i \in {k \in DOMAIN info.columns : info.columns[k].required = B(TRUE)}}

CompleteSet(info) ==
    LET items == get(info.data_quality, "completeness", EmptyDict).v
    IN {S(items[i].k) : i \in {k \in DOMAIN items : items[k].v = I(100)}}

PrimaryKeySet(info) == IF Truthy(info.primary_key) THEN {info.primary_key} ELSE {}

\* every column has one rule named no_null_<column>, and the rules are those
\* of the union of the three sets
NoNullUnion(info, sql) ==
    LET rules == NoNullColumns(sql) IN
    /\ {rules[i] : i \in DOMAIN rules}
         = RequiredSet(info) \cup CompleteSet(info) \cup PrimaryKeySet(info)
    /\ \A i, j \in DOMAIN rules : rules[i] = rules[j] => i = j
    /\ \A i \in DOMAIN rules :
          StmtsOf(sql, "NULL_COUNT")[i].args[3] = lower(NoNull \o rules[i].v)

ColumnIndex(info, name) == CHOOSE i \in DOMAIN info.columns : info.columns[i].name = name

\* required columns in column order, then the columns only completeness names
DeclaredOrder(info, rules) ==
    \A i, j \in DOMAIN rules :
        i < j =>
            /\ rules[j] \in RequiredSet(info) => rules[i] \in RequiredSet(info)
            /\ (rules[i] \in RequiredSet(info) /\ rules[j] \in RequiredSet(info))
                  => ColumnIndex(info, rules[i]) < ColumnIndex(info, rules[j])

ContractProperties ==
    get(get(get(contract, "spec", EmptyDict), "schema", EmptyDict), "properties", EmptyDict).v

\* the tags of a column spec hold one of the five dimension tags
HasDimensionTag(col_spec) ==
    LET tags == get(col_spec, "tags", EmptyList).v
    IN \E i \in DOMAIN tags, d \in DOMAIN DimensionTags : tags[i] = S(TagName(DimensionTags[d]))

\* the text of a column spec's constraints holds "enum": the text of a
\* mapping prints its keys, so a constraints mapping with an enum key does
DeclaresEnum(col_spec) == HasKey(get(col_spec, "constraints", EmptyDict), "enum")

\* C15: on the model extract_contract_info built, the quality script has one
\* UNIQUE_COUNT metric for every column of the contract with a dimension tag
\* and for every column whose constraints in the contract contain "enum",
\* and the cardinality section is left out exactly when no column qualifies.
C15_Cardinality ==
    (dmf_sql # Unset /\ ~IsRaise(dmf_sql)) =>
        LET props == ContractProperties
            qualifying == {i \in DOMAIN props :
                             HasDimensionTag(props[i].v) \/ DeclaresEnum(props[i].v)}
            metrics == StmtsOf(dmf_sql.v, "UNIQUE_COUNT")
        IN /\ {metrics[i].args[2] : i \in DOMAIN metrics} = {S(props[i].k) : i \in qualifying}
           /\ Len(metrics) = Cardinality(qualifying)
           /\ (StmtsOf(dmf_sql.v, "-- PART 4: CARDINALITY TRACKING (UNIQUE_COUNT)") = <<>>)
                 <=> (qualifying = {})

\* a column that is a timestamp by declared type, by tag or by name
QualifiesForFreshness(col) ==
    \/ col.type \in TimestampTypes
    \/ \E i \in DOMAIN col.tags.v : col.tags.v[i] = S(TagName("timestamp"))
    \/ Contains(lower(col.name.v), <<"c","a","l","c","u","l","a","t","e","d","_","a","t">>)

\* C16: the quality script has at most one freshness rule; it is on the
\* first column, in column order, that is a timestamp by declared type, by
\* tag or by a name containing "calculated_at" in any case; without such a
\* column the freshness section is left out whatever max_age is.
C16_FreshnessColumn ==
    (dmf_sql # Unset /\ ~IsRaise(dmf_sql)) =>
        LET cols == contract_info.v.columns
            qualifying == {i \in DOMAIN cols : QualifiesForFreshness(cols[i])}
            rules == StmtsOf(dmf_sql.v, "FRESHNESS")
        IN IF qualifying = {}
           THEN /\ rules = <<>>
                /\ StmtsOf(dmf_sql.v, "-- PART 5: FRESHNESS SLA") = <<>>
           ELSE /\ Len(rules) = 1
                /\ \E i \in qualifying :
                      /\ \A j \in qualifying : i <= j
                      /\ rules[1].args[2] = cols[i].name

\* the rule is on a column that qualifies by its name only, ahead of a
\* column declared timestamp_ntz
C16_Witness ==
    /\ dmf_sql # Unset
    /\ ~IsRaise(dmf_sql)
    /\ Len(contract_info.v.columns) = 2
    /\ contract_info.v.columns[1].name = S(Risk_Calculated_At)
    /\ contract_info.v.columns[1].type = S(string)
    /\ contract_info.v.columns[2].type = S(timestamp_ntz)
    /\ StmtsOf(dmf_sql.v, "FRESHNESS")[1].args[2] = S(Risk_Calculated_At)

\* the minimum a metrics entry states: the integer its threshold text spells
\* for an entry named row_count, 0 for an entry that states none
StatedMinimum(metric) ==
    CASE metric = D(<<KV("name", S(row_count)),
                      KV("threshold", S(<<">"," ","1",",","2","0"," ","r","o","w","s">>))>>) -> 120
      [] metric = D(<<KV("name", S(row_count)), KV("threshold", S(<<"7">>))>>) -> 7
      [] OTHER -> 0

\* the minimum the metrics list states: that of the last entry stating one,
\* the default 500 when no entry does
RECURSIVE ExpectedMinimum(_)
ExpectedMinimum(metrics) ==
    IF Len(metrics) = 0 THEN 500
    ELSE IF StatedMinimum(metrics[Len(metrics)]) # 0
         THEN StatedMinimum(metrics[Len(metrics)])
         ELSE ExpectedMinimum(SubSeq(metrics, 1, Len(metrics) - 1))

\* C17: every quality script has exactly one row-count rule; its minimum is
\* 500 unless a monitoring.metrics entry named row_count has a threshold
\* with digits, then it is the integer of those digits; a threshold that
\* cannot be parsed leaves the value held before it.
C17_RowCountThreshold ==
    (dmf_sql # Unset /\ ~IsRaise(dmf_sql)) =>
        LET monitoring == get(contract_info.v.data_quality, "monitoring", EmptyDict)
            metrics == get(monitoring, "metrics", EmptyList).v
            rules == StmtsOf(dmf_sql.v, "ROW_COUNT")
        IN /\ Len(rules) = 1
           /\ rules[1].args[3] = ">="
           /\ rules[1].args[4] = ExpectedMinimum(metrics)
           /\ StmtsOf(dmf_sql.v, "-- PART 6: ROW COUNT THRESHOLD")
                 = <<Stmt("-- PART 6: ROW COUNT THRESHOLD", <<ExpectedMinimum(metrics)>>)>>

\* an override to 7 followed by a row_count entry without digits: 7 stays
C17_Witness ==
    /\ dmf_sql # Unset
    /\ ~IsRaise(dmf_sql)
    /\ get(get(contract_info.v.data_quality, "monitoring", EmptyDict), "metrics", EmptyList)
         = L(<<D(<<KV("name", S(row_count)), KV("threshold", S(<<"7">>))>>),
               D(<<KV("name", S(row_count)), KV("threshold", S(<<"n","/","a">>))>>)>>)
    /\ StmtsOf(dmf_sql.v, "ROW_COUNT")[1].args[4] = 7

\* C18: a max_age or a row-count threshold that is no number with unit,
\* text or not, never makes generate_dmf_sql fail: the script is returned,
\* its freshness rule (if any) is at 86400 seconds for a max_age that is no
\* text, and its row-count rule keeps the minimum held before the threshold.
C18_ParseFallback ==
    dmf_sql # Unset =>
        /\ ~IsRaise(dmf_sql)
        /\ (~IsStr(max_age_of(contract_info.v))
              /\ StmtsOf(dmf_sql.v, "FRESHNESS") # <<>>)
              => FreshnessThreshold(dmf_sql.v) = 86400
        /\ StmtsOf(dmf_sql.v, "ROW_COUNT")[1].args[4] =
              ExpectedMinimum(get(get(contract_info.v.data_quality, "monitoring", EmptyDict),
                                  "metrics", EmptyList).v)

\* the expectation names of the rules of a script, in order
ExpectationNames(sql) ==
    [i \in DOMAIN StmtsOf(sql, "NULL_COUNT") |-> StmtsOf(sql, "NULL_COUNT")[i].args[3]]
    \o [i \in DOMAIN StmtsOf(sql, "DUPLICATE_COUNT") |->
            StmtsOf(sql, "DUPLICATE_COUNT")[i].args[3]]
    \o [i \in DOMAIN StmtsOf(sql, "FRESHNESS") |-> StmtsOf(sql, "FRESHNESS")[i].args[3]]
    \o [i \in DOMAIN StmtsOf(sql, "ROW_COUNT") |-> StmtsOf(sql, "ROW_COUNT")[i].args[2]]

\* C21: within one quality script no two rules carry the same expectation
\* name: the names no_null_<column>, no_duplicate_<primary_key>,
\* freshness_sla and min_row_count are pairwise distinct.
C21_DistinctExpectationNames ==
    (dmf_sql # Unset /\ ~IsRaise(dmf_sql)) =>
        \A i, j \in DOMAIN ExpectationNames(dmf_sql.v) :
            ExpectationNames(dmf_sql.v)[i] = ExpectationNames(dmf_sql.v)[j] => i = j

\* the section a statement of the quality script belongs to: 1 schedule,
\* 2 completeness, 3 uniqueness, 4 cardinality tracking, 5 freshness,
\* 6 row-count threshold, 7 verification; 0 for the script header
SectionOf(statement) ==
    CASE statement.stmt \in {"-- PART 1: SET DMF SCHEDULE", "SET DATA_METRIC_SCHEDULE"} -> 1
      [] statement.stmt \in {"-- PART 2: COMPLETENESS CHECKS (NULL_COUNT)", "NULL_COUNT"} -> 2
      [] statement.stmt \in {"-- PART 3: UNIQUENESS CHECK (DUPLICATE_COUNT)",
                             "DUPLICATE_COUNT"} -> 3
      [] statement.stmt \in {"-- PART 4: CARDINALITY TRACKING (UNIQUE_COUNT)",
                             "UNIQUE_COUNT"} -> 4
      [] statement.stmt \in {"-- PART 5: FRESHNESS SLA", "FRESHNESS"} -> 5
      [] statement.stmt \in {"-- PART 6: ROW COUNT THRESHOLD", "ROW_COUNT"} -> 6
      [] statement.stmt \in {"-- PART 7: VERIFY DMF CONFIGURATION",
                             "SELECT FROM INFORMATION_SCHEMA.DATA_METRIC_FUNCTION_REFERENCES",
                             "SELECT FROM SYSTEM$EVALUATE_DATA_QUALITY_EXPECTATIONS",
                             "-- SETUP COMPLETE"} -> 7
      [] OTHER -> 0

SectionsIn(sql) == {SectionOf(sql[i]) : i \in DOMAIN sql}

\* C13: in every quality script the statements appear in the order schedule,
\* completeness, uniqueness, cardinality tracking, freshness, row-count
\* threshold, verification; schedule, row-count and verification are always
\* there and no section appears twice.
C13_SectionOrder ==
    (dmf_sql # Unset /\ ~IsRaise(dmf_sql)) =>
        /\ \A i, j \in DOMAIN dmf_sql.v :
              i < j => SectionOf(dmf_sql.v[i]) <= SectionOf(dmf_sql.v[j])
        /\ {1, 6, 7} \subseteq SectionsIn(dmf_sql.v)
        /\ Len(StmtsOf(dmf_sql.v, "SET DATA_METRIC_SCHEDULE")) = 1
        /\ Len(StmtsOf(dmf_sql.v, "ROW_COUNT")) = 1
        /\ Len(StmtsOf(dmf_sql.v, "SELECT FROM SYSTEM$EVALUATE_DATA_QUALITY_EXPECTATIONS")) = 1
        /\ \A kind \in {"-- PART 3: UNIQUENESS CHECK (DUPLICATE_COUNT)",
                         "-- PART 4: CARDINALITY TRACKING (UNIQUE_COUNT)",
                         "-- PART 5: FRESHNESS SLA"} :
              Len(StmtsOf(dmf_sql.v, kind)) <= 1

\* a script with all seven sections
C13_Witness ==
    /\ dmf_sql # Unset
    /\ ~IsRaise(dmf_sql)
    /\ SectionsIn(dmf_sql.v) = 0..7
    /\ Len(StmtsOf(dmf_sql.v, "UNIQUE_COUNT")) = 1
    /\ Len(StmtsOf(dmf_sql.v, "FRESHNESS")) = 1

----------------------------------------------------------------------------
(* Determinism of the three template generators *)

OnePolicy ==
    D(<<KV(NAME_MASK,
           D(<<KV("applies_to", S(customer_name)),
               KV("authorized_roles", L(<<S(analyst), S(manager)>>))>>))>>)

\* contracts with and without primary key, masking policy and required columns
GeneratorContracts ==
    {ContractOf(<<KV("schema", D(Opt("primary_key", pk) \o <<KV("properties", props)>>))>>
                \o Opt("masking_policies", policies)) :
        pk \in {Absent, S(segment)},
        props \in PropertiesUpTo(KeyColumnSpecs, MaxCols),
        policies \in {Absent, OnePolicy}}

InitGenerators == InitWith(GeneratorContracts)
SpecGenerators ==
    InitGenerators /\ [][Extract \/ RunSchema \/ RunMasking \/ RunDmf]_vars

----------------------------------------------------------------------------
(* The Generate All Outputs handler *)

\* what the completion query does
CortexOutcomes ==
    {[kind |-> "raises", text |-> "SQL compilation error", response |-> None],
     [kind |-> "no rows", text |-> "", response |-> None],
     [kind |-> "response", text |-> "", response |-> None],
     [kind |-> "response", text |-> "", response |-> EmptyStr],
     [kind |-> "response", text |-> "", response |-> S(<<"SELECT 1">>)]}

CortexDisabled == [kind |-> "disabled", text |-> "", response |-> None]

\* a full contract: two columns, a tagged timestamp, a policy, top-level roles
FullContract ==
    ContractOf(<<KV("info", D(<<KV("owner", D(<<KV("email", S(<<"o","@","x">>))>>))>>)),
                 KV("source", D(<<KV("upstream_tables", L(<<S(DB_RAW_CUSTOMERS)>>))>>)),
                 KV("schema",
                    D(<<KV("primary_key", S(customer_id)),
                        KV("properties",
                           D(<<KV(customer_id,
                                  D(<<KV("constraints", D(<<KV("required", B(TRUE))>>))>>)),
                               KV(loaded, D(<<KV("type", S(timestamp_ntz))>>))>>))>>)),
                 KV("masking_policies", OnePolicy),
                 KV("access_control", D(<<KV("authorized_roles", L(<<S(ANALYST)>>))>>))>>)

\* a contract that declares a target only
BareContract == ContractOf(<<>>)

\* a contract whose owner is a plain text
OwnerTextContract ==
    ContractOf(<<KV("info", D(<<KV("owner", S(<<"o","p","s">>))>>))>>)

\* a contract whose sla section is left empty
EmptySlaContract == ContractOf(<<KV("sla", None)>>)

\* a contract whose max_age is a number
NumericMaxAgeContract ==
    ContractOf(<<KV("data_quality", D(<<KV("freshness", D(<<KV("max_age", I(25))>>))>>))>>)

MainContracts ==
    {FullContract, BareContract, OwnerTextContract, EmptySlaContract,
     NumericMaxAgeContract, L(<<S(<<"x">>)>>)}

\* Line 839: the button is pressed; the rerun parses and extracts the same
\* contract again and enters the handler.
ClickGenerate ==
    /\ pc = "review"
    /\ requests < MaxRequests
    /\ requests' = requests + 1
    /\ pc' = "model"
    /\ cortex_outcome' = Unset
    /\ dbt_model_code' = Unset
    /\ schema_yml' = Unset
    /\ masking_sql' = Unset
    /\ dmf_sql' = Unset
    /\ UNCHANGED <<contract, contract_info, session_state, runs>>

\* GenerateModel writing its result to st.session_state as soon as it has it
GenerateModel_stored_at_once ==
    /\ pc = "model"
    /\ \E use_cortex \in BOOLEAN, outcome \in CortexOutcomes :
        LET result == IF use_cortex THEN call_cortex(outcome)
                      ELSE Ok(<<"-- Cortex disabled. Enable Cortex LLM for full generation.",
                                contract_info.v.name>>)
        IN /\ cortex_outcome' = IF use_cortex THEN outcome ELSE CortexDisabled
           /\ pc' = "schema"
           /\ dbt_model_code' = result
           /\ session_state' = [session_state EXCEPT !.generated_model = result]
    /\ UNCHANGED <<contract, contract_info, schema_yml, masking_sql, dmf_sql,
                   requests, runs>>

\* Lines 843-851: the transformation text, from Cortex or the placeholder.
GenerateModel ==
    /\ pc = "model"
    /\ \E use_cortex \in BOOLEAN, outcome \in CortexOutcomes :
        LET result == IF use_cortex THEN call_cortex(outcome)
                      ELSE Ok(<<"-- Cortex disabled. Enable Cortex LLM for full generation.",
                                contract_info.v.name>>)
        IN /\ cortex_outcome' = IF use_cortex THEN outcome ELSE CortexDisabled
           /\ IF IsRaise(result)
              THEN pc' = "crashed" /\ UNCHANGED dbt_model_code
              ELSE pc' = "schema" /\ dbt_model_code' = result
    /\ UNCHANGED <<contract, contract_info, schema_yml, masking_sql, dmf_sql,
                   session_state, requests, runs>>

\* Line 854.
GenerateSchema ==
    /\ pc = "schema"
    /\ LET result == generate_schema_yml(contract_info.v)
       IN IF IsRaise(result)
          THEN pc' = "crashed" /\ UNCHANGED schema_yml
          ELSE pc' = "masking" /\ schema_yml' = result
    /\ contract_info' = Ok(info_after_generate_schema_yml(contract_info.v))
    /\ UNCHANGED <<contract, cortex_outcome, dbt_model_code, masking_sql, dmf_sql,
                   session_state, requests, runs>>

\* Line 857.
GenerateMasking ==
    /\ pc = "masking"
    /\ \E now \in Clock :
        LET result == generate_masking_policies_sql(contract_info.v, now)
        IN IF IsRaise(result)
           THEN pc' = "crashed" /\ UNCHANGED masking_sql
           ELSE pc' = "dmf" /\ masking_sql' = result
    /\ contract_info' = Ok(info_after_generate_masking_policies_sql(contract_info.v))
    /\ UNCHANGED <<contract, cortex_outcome, dbt_model_code, schema_yml, dmf_sql,
                   session_state, requests, runs>>

\* Line 860.
GenerateDmf ==
    /\ pc = "dmf"
    /\ \E now \in Clock :
        LET result == generate_dmf_sql(contract_info.v, now)
        IN IF IsRaise(result)
           THEN pc' = "crashed" /\ UNCHANGED dmf_sql
           ELSE pc' = "store" /\ dmf_sql' = result
    /\ contract_info' = Ok(info_after_generate_dmf_sql(contract_info.v))
    /\ UNCHANGED <<contract, cortex_outcome, dbt_model_code, schema_yml, masking_sql,
                   session_state, requests, runs>>

\* Lines 863-867.
StoreResults ==
    /\ pc = "store"
    /\ session_state' =
         [generated_model |-> dbt_model_code,
          generated_schema |-> schema_yml,
          generated_masking |-> masking_sql,
          generated_dmf |-> dmf_sql,
          model_name |-> Ok(lower(contract_info.v.target_table.v))]
    /\ pc' = "review"
    /\ UNCHANGED <<contract, contract_info, cortex_outcome, dbt_model_code,
                   schema_yml, masking_sql, dmf_sql, requests, runs>>

\* Lines 727-773: another contract is pasted, uploaded or loaded; the rerun
\* starts with the stored results of st.session_state and nothing else.
NewContract ==
    /\ pc \in {"review", "crashed"}
    /\ contract' \in MainContracts
    /\ contract_info' = Unset
    /\ pc' = "parse"
    /\ cortex_outcome' = Unset
    /\ dbt_model_code' = Unset
    /\ schema_yml' = Unset
    /\ masking_sql' = Unset
    /\ dmf_sql' = Unset
    /\ UNCHANGED <<session_state, requests, runs>>

Init == InitWith(MainContracts)

Next ==
    \/ Extract
    \/ ClickGenerate
    \/ GenerateModel
    \/ GenerateSchema
    \/ GenerateMasking
    \/ GenerateDmf
    \/ StoreResults
    \/ NewContract

Spec == Init /\ [][Next]_vars

\* the text call_cortex is to return for an outcome
ExpectedModelCode(outcome) ==
    CASE outcome.kind = "raises" ->
            Ok(<<"-- Error generating code: ", "SQL compilation error">>)
      [] outcome.kind = "no rows" -> Ok(<<"-- Error: No response from Cortex">>)
      [] outcome.kind = "response" /\ outcome.response \in {None, EmptyStr} ->
            Ok(<<"-- Error: No response from Cortex">>)
      [] outcome.kind = "response" /\ outcome.response \notin {None, EmptyStr} ->
            Ok(outcome.response.v)
      [] outcome.kind = "disabled" ->
            Ok(<<"-- Cortex disabled. Enable Cortex LLM for full generation.",
                 S(<<"c","h","u","r","n">>)>>)

\* C8: whatever the completion query does, the handler goes on with the
\* inline error text (or the unmodified response) as the transformation
\* artifact, and the manifest, masking and quality artifacts are generated
\* and stored with it.
C8_CortexFailsOpen ==
    cortex_outcome # Unset =>
        /\ dbt_model_code = ExpectedModelCode(cortex_outcome)
        /\ pc = "crashed" =>
              \/ IsRaise(generate_schema_yml(contract_info.v))
              \/ \A now \in Clock :
                    IsRaise(generate_masking_policies_sql(contract_info.v, now))
              \/ \A now \in Clock : IsRaise(generate_dmf_sql(contract_info.v, now))
        /\ pc = "review" =>
              /\ session_state.generated_model = dbt_model_code
              /\ session_state.generated_schema = generate_schema_yml(contract_info.v)
              /\ \E now \in Clock :
                    session_state.generated_masking =
                        generate_masking_policies_sql(contract_info.v, now)
              /\ \E now \in Clock :
                    session_state.generated_dmf = generate_dmf_sql(contract_info.v, now)
              /\ ~IsRaise(session_state.generated_schema)
              /\ ~IsRaise(session_state.generated_masking)
              /\ ~IsRaise(session_state.generated_dmf)

\* C12: a Generate request on a contract that was extracted and displayed
\* never ends in an uncaught exception: a failure inside one generator leaves
\* the other generators' artifacts produced and the request completes.
C12_FaultIsolated ==
    cortex_outcome # Unset => pc # "crashed"

\* the four results of st.session_state
StoredFour(state) ==
    <<state.generated_model, state.generated_schema, state.generated_masking,
      state.generated_dmf>>

\* C20: the four stored results are written in one step, after the four
\* generation steps of the request have returned, from the values of that
\* request; at every moment none of them is set or all four are; a request
\* in which a generation step raises leaves the stored four as they were.
C20_StoredTogether ==
    [][/\ StoredFour(session_state') # StoredFour(session_state) =>
            /\ pc = "store"
            /\ \A i \in 1..4 :
                  /\ <<dbt_model_code, schema_yml, masking_sql, dmf_sql>>[i] # Unset
                  /\ ~IsRaise(<<dbt_model_code, schema_yml, masking_sql, dmf_sql>>[i])
            /\ StoredFour(session_state') =
                  <<dbt_model_code, schema_yml, masking_sql, dmf_sql>>
       /\ \/ \A i \in 1..4 : StoredFour(session_state')[i] = Unset
          \/ \A i \in 1..4 : StoredFour(session_state')[i] # Unset
       /\ pc' = "crashed" => session_state' = session_state]_vars

\* a first request stored its four results; a second request, on another
\* contract, raised in generate_schema_yml and the four are still those of
\* the first
C20_Witness ==
    /\ pc = "crashed"
    /\ requests = 2
    /\ cortex_outcome # Unset
    /\ contract = EmptySlaContract
    /\ schema_yml = Unset
    /\ \A i \in 1..4 : StoredFour(session_state)[i] # Unset
    /\ Len(session_state.generated_schema.v.models.columns) = 2

\* the query raised, and the request ended with the error text and the three
\* template artifacts stored
C8_Witness ==
    /\ pc = "review"
    /\ cortex_outcome # Unset
    /\ cortex_outcome.kind = "raises"
    /\ session_state.generated_model =
         Ok(<<"-- Error generating code: ", "SQL compilation error">>)
    /\ Len(StmtsOf(session_state.generated_masking.v, "CREATE OR REPLACE MASKING POLICY")) = 1
    /\ Len(StmtsOf(session_state.generated_dmf.v, "FRESHNESS")) = 1
    /\ Len(session_state.generated_schema.v.models.columns) = 2

====
